---- MODULE Spec2Model ----
(***************************************************************************)
(* Model of post_copy.py, the post-copy script of the KBase JupyterLab      *)
(* extension overlay.                                                       *)
(*                                                                          *)
(* A text is a sequence of tokens.  Every token is the literal piece of     *)
(* text it stands for; the regular expressions and substring tests of the   *)
(* script are evaluated token by token, with the character classes they     *)
(* look at ('[', white space, newline, the marker substrings) given as      *)
(* sets of tokens.  White space is a token of its own, and '[' occurs only  *)
(* as the first character of a token, so a match of the script's patterns   *)
(* always begins and ends on a token boundary.                              *)
(***************************************************************************)
EXTENDS Naturals, Sequences, FiniteSets

VARIABLES
    argv,         \* sys.argv of the current run
    pc,           \* position of the current run in main()
    fs,           \* the working tree: path -> [exists, text]
    out,          \* standard output of the current run, one entry per line
    exit_status,  \* <<>> while running, <<s>> once the process has exited
    idx,          \* delete_files: index of the next entry of files_to_delete
    written,      \* paths the current run has passed to write_text
    runs,         \* number of runs started so far
    tree0,        \* history: the working tree before the first run
    atDelete      \* history: the working tree when delete_files was entered

vars == <<argv, pc, fs, out, exit_status, idx, written, runs, tree0, atDelete>>

----------------------------------------------------------------------------
(* Tokens of pyproject.toml *)

NL == "\n"
SP == "    "
TXT == "name = \"x\""
COMMA == ","
KEYEQ == "skip="
ARR == "[\"check-links\"]"
SECT == "[project]"
DEPNODE1 == "\"hatch-nodejs-version>=0.3.2\""
DEPNODE2 == "\"hatch-nodejs-version>=1\""
DEPVCS == "\"hatch-vcs>=0.4.0\""
HV == "[tool.hatch.version]"
SRCNODE == "source = \"nodejs\""
SRCVCS == "source = \"vcs\""
RAWOPT == "[tool.hatch.version.raw-options]"
LSCHEME == "local_scheme = \"no-local-version\""
HOOKV == "[tool.hatch.build.hooks.version]"
HOOKREF == "# see tool.hatch.build.hooks.version"
JB == "[tool.hatch.build.hooks.jupyter-builder]"
RELO == "[tool.jupyter-releaser.options]"
RELH == "[tool.jupyter-releaser.hooks]"
REQ38 == "requires-python = \">=3.8\""
REQ310 == "requires-python = \">=3.10\""
CLS8 == "\"Programming Language :: Python :: 3.8\""
CLS9 == "\"Programming Language :: Python :: 3.9\""

\* python names the model runs the script with
Names == {"pkg", "mod"}

\* the path line of the version hook, f'path = "{python_name}/_version.py"'
VPath(python_name) == "path = \"" \o python_name \o "/_version.py\""

\* tokens matched by "hatch-nodejs-version>=[\d.]+"
DepNodeTokens == {DEPNODE1, DEPNODE2}

\* tokens matched by requires-python = ">=3\.\d+"
ReqPythonTokens == {REQ38, REQ310}

\* tokens matched by "Programming Language :: Python :: 3\.[89]"
OldClassifierTokens == {CLS8, CLS9}

\* tokens whose first character is '[' (no token has a '[' elsewhere)
BracketTokens == {ARR, SECT, HV, RAWOPT, HOOKV, JB, RELO, RELH}

\* tokens matched by \s
SpaceTokens == {NL, SP}

\* tokens that contain the substring local_scheme
LocalSchemeTokens == {LSCHEME}

\* tokens that contain the substring tool.hatch.build.hooks.version
HooksVersionTokens == {HOOKV, HOOKREF}

----------------------------------------------------------------------------
(* Text primitives *)

\* `sub in s` for a substring that lies within one token
Contains(s, toks) == \E k \in 1..Len(s) : s[k] \in toks

\* s[i:].startswith(p)
MatchAt(s, i, p) ==
    /\ i + Len(p) - 1 <= Len(s)
    /\ \A k \in 1..Len(p) : s[i + k - 1] = p[k]

\* str.replace / re.sub of a literal: leftmost, non-overlapping, all matches
RECURSIVE ReplaceFrom(_, _, _, _)
ReplaceFrom(s, i, p, r) ==
    IF i > Len(s) THEN <<>>
    ELSE IF MatchAt(s, i, p) THEN r \o ReplaceFrom(s, i + Len(p), p, r)
    ELSE <<s[i]>> \o ReplaceFrom(s, i + 1, p, r)

ReplaceAll(s, p, r) == ReplaceFrom(s, 1, p, r)

\* number of (possibly overlapping) occurrences of p in s
Count(s, p) == Cardinality({k \in 1..Len(s) : MatchAt(s, k, p)})

----------------------------------------------------------------------------
(* modify_pyproject, rule by rule *)

\* re.sub(r'"hatch-nodejs-version>=[\d.]+"', '"hatch-vcs>=0.4.0"', content)
SubDependency(content) ==
    [k \in 1..Len(content) |->
        IF content[k] \in DepNodeTokens THEN DEPVCS ELSE content[k]]

\* re.sub(r'\[tool\.hatch\.version\]\nsource = "nodejs"', ..., content)
SubVersionSource(content) ==
    ReplaceAll(content, <<HV, NL, SRCNODE>>, <<HV, NL, SRCVCS>>)

\* the text the local_scheme rule puts in place of each match
RawOptionsInserted == <<HV, NL, SRCVCS, NL, NL, RAWOPT, NL, LSCHEME>>

\* AddLocalScheme without its "local_scheme" not in content test
AddLocalScheme_Unguarded(content) ==
    ReplaceAll(content, <<HV, NL, SRCVCS>>, RawOptionsInserted)

\* if "local_scheme" not in content: re.sub(r'(...source = "vcs")', r'\1\n\n[...]', content)
AddLocalScheme(content) ==
    IF ~Contains(content, LocalSchemeTokens)
    THEN ReplaceAll(content, <<HV, NL, SRCVCS>>, RawOptionsInserted)
    ELSE content

\* version_hook = f'[tool.hatch.build.hooks.version]\npath = "{python_name}/_version.py"'
version_hook(python_name) == <<HOOKV, NL, VPath(python_name)>>

\* if "tool.hatch.build.hooks.version" not in content: content.replace(...)
AddVersionHook(content, python_name) ==
    IF ~Contains(content, HooksVersionTokens)
    THEN ReplaceAll(content, <<JB>>, version_hook(python_name) \o <<NL, NL, JB>>)
    ELSE content

\* .*?(?=\[|\Z) from index i: the index of the next '[' or Len(s) + 1
RECURSIVE LazyUntilBracket(_, _)
LazyUntilBracket(s, i) ==
    IF i > Len(s) \/ s[i] \in BracketTokens THEN i
    ELSE LazyUntilBracket(s, i + 1)

\* re.sub(header + r'.*?(?=\[|\Z)', '', content, flags=re.DOTALL)
RECURSIVE RemoveSectionFrom(_, _, _)
RemoveSectionFrom(s, i, header) ==
    IF i > Len(s) THEN <<>>
    ELSE IF s[i] = header
         THEN RemoveSectionFrom(s, LazyUntilBracket(s, i + 1), header)
         ELSE <<s[i]>> \o RemoveSectionFrom(s, i + 1, header)

RemoveSection(content, header) == RemoveSectionFrom(content, 1, header)

\* re.sub(r'requires-python = ">=3\.\d+"', 'requires-python = ">=3.10"', content)
BumpRequiresPython(content) ==
    [k \in 1..Len(content) |->
        IF content[k] \in ReqPythonTokens THEN REQ310 ELSE content[k]]

\* \s* from index i, greedy: the index after the white space
RECURSIVE SkipSpace(_, _)
SkipSpace(s, i) ==
    IF i <= Len(s) /\ s[i] \in SpaceTokens THEN SkipSpace(s, i + 1) ELSE i

\* where a match of \s*"...3\.[89]",?\n that starts at i ends (index after
\* it), or 0 when there is no match at i
ClassifierMatchEnd(s, i) ==
    LET j == SkipSpace(s, i) IN
    IF j <= Len(s) /\ s[j] \in OldClassifierTokens
    THEN IF j + 1 <= Len(s) /\ s[j + 1] = NL THEN j + 2
         ELSE IF j + 2 <= Len(s) /\ s[j + 1] = COMMA /\ s[j + 2] = NL THEN j + 3
         ELSE 0
    ELSE 0

\* re.sub(r'\s*"Programming Language :: Python :: 3\.[89]",?\n', '\n', content)
RECURSIVE RemoveClassifiersFrom(_, _)
RemoveClassifiersFrom(s, i) ==
    IF i > Len(s) THEN <<>>
    ELSE IF ClassifierMatchEnd(s, i) # 0
         THEN <<NL>> \o RemoveClassifiersFrom(s, ClassifierMatchEnd(s, i))
         ELSE <<s[i]>> \o RemoveClassifiersFrom(s, i + 1)

RemoveOldClassifiers(content) == RemoveClassifiersFrom(content, 1)

\* \n* from index i, greedy: the index after the newlines
RECURSIVE SkipNewlines(_, _)
SkipNewlines(s, i) ==
    IF i <= Len(s) /\ s[i] = NL THEN SkipNewlines(s, i + 1) ELSE i

\* re.sub of \n{atLeast,} by r, from index i on
RECURSIVE CollapseFrom(_, _, _, _)
CollapseFrom(s, i, atLeast, r) ==
    IF i > Len(s) THEN <<>>
    ELSE IF SkipNewlines(s, i) - i >= atLeast
         THEN r \o CollapseFrom(s, SkipNewlines(s, i), atLeast, r)
         ELSE <<s[i]>> \o CollapseFrom(s, i + 1, atLeast, r)

\* CollapseBlankLines with \n{4,} for \n{3,}
CollapseBlankLines_FourOrMore(content) == CollapseFrom(content, 1, 4, <<NL, NL>>)

\* re.sub(r'\n{3,}', '\n\n', content)
CollapseBlankLines(content) == CollapseFrom(content, 1, 3, <<NL, NL>>)

\* modify_pyproject up to the removal of the jupyter-releaser sections
BeforeRemoval(content, python_name) ==
    AddVersionHook(AddLocalScheme(SubVersionSource(SubDependency(content))), python_name)

\* the two removals of the jupyter-releaser sections
RemoveReleaserSections(content) == RemoveSection(RemoveSection(content, RELO), RELH)

\* modify_pyproject after the removal of the jupyter-releaser sections
AfterRemoval(content) ==
    CollapseBlankLines(RemoveOldClassifiers(BumpRequiresPython(content)))

\* the text modify_pyproject writes back for the text it read
modify_pyproject(content, python_name) ==
    AfterRemoval(RemoveReleaserSections(BeforeRemoval(content, python_name)))

----------------------------------------------------------------------------
(* Tokens of __init__.py *)

Q3 == "\"\"\""
DOC == "Package doc."
CODE == "import os"
VER == "from ._version import __version__"

\* version_block without its final newline
VersionBlockText(python_name) ==
    "try:\n    from ._version import __version__\nexcept ImportError:\n    import warnings\n    warnings.warn(\"Importing '"
        \o python_name
        \o "' outside a proper installation.\")\n    __version__ = \"dev\""

\* version_block = (the six lines of the try block).format(python_name)
version_block(python_name) == <<VersionBlockText(python_name), NL>>

\* tokens that contain the substring _version
VersionMarkerTokens == {VER} \cup {VersionBlockText(n) : n \in Names}

\* index of the first occurrence of token t in s, 0 when there is none
RECURSIVE FindFrom(_, _, _)
FindFrom(s, i, t) ==
    IF i > Len(s) THEN 0
    ELSE IF s[i] = t THEN i
    ELSE FindFrom(s, i + 1, t)

\* s.split(sep, maxsplit)
RECURSIVE Split(_, _, _)
Split(s, sep, maxsplit) ==
    LET k == FindFrom(s, 1, sep) IN
    IF maxsplit = 0 \/ k = 0 THEN <<s>>
    ELSE <<SubSeq(s, 1, k - 1)>> \o Split(SubSeq(s, k + 1, Len(s)), sep, maxsplit - 1)

\* the text modify_init writes for a text without the _version marker
InsertVersionBlock(content, python_name) ==
    IF Contains(content, {Q3})
    THEN LET parts == Split(content, Q3, 2) IN
         IF Len(parts) >= 3
         THEN parts[1] \o <<Q3>> \o parts[2] \o <<Q3>> \o <<NL, NL>>
                  \o version_block(python_name) \o parts[3]
         ELSE version_block(python_name) \o <<NL>> \o content
    ELSE version_block(python_name) \o <<NL>> \o content

----------------------------------------------------------------------------
(* The working tree *)

PyprojectPath == "pyproject.toml"
OtherPath == "README.md"

\* init_path = Path(python_name) / "__init__.py"
init_path(python_name) == python_name \o "/__init__.py"

files_to_delete == <<
    ".nvmrc",
    "setup.py",
    ".github/workflows/check-release.yml",
    ".github/workflows/prep-release.yml",
    ".github/workflows/publish-release.yml",
    ".github/workflows/enforce-label.yml" >>

DeletablePaths == {files_to_delete[k] : k \in 1..Len(files_to_delete)}

Paths == {PyprojectPath, OtherPath} \cup {init_path(n) : n \in Names} \cup DeletablePaths

NoFile == [exists |-> FALSE, text |-> <<>>]
FileOf(text) == [exists |-> TRUE, text |-> text]

\* Path.write_text
WriteText(tree, path, text) == [tree EXCEPT ![path] = FileOf(text)]

\* Path.unlink
Unlink(tree, path) == [tree EXCEPT ![path] = NoFile]

\* InitIsRewritten without the "_version" in content test
InitIsRewritten_NoMarker(tree, python_name) ==
    tree[init_path(python_name)].exists

\* whether modify_init(python_name) reaches init_path.write_text on this tree
InitIsRewritten(tree, python_name) ==
    /\ tree[init_path(python_name)].exists
    /\ ~Contains(tree[init_path(python_name)].text, VersionMarkerTokens)

\* the working tree after modify_init(python_name)
modify_init(tree, python_name) ==
    IF InitIsRewritten(tree, python_name)
    THEN WriteText(tree, init_path(python_name),
                   InsertVersionBlock(tree[init_path(python_name)].text, python_name))
    ELSE tree

\* the working tree after modify_pyproject(Path("pyproject.toml"), python_name)
PyprojectRewritten(tree, python_name) ==
    WriteText(tree, PyprojectPath, modify_pyproject(tree[PyprojectPath].text, python_name))

\* DeleteOne with setup.py missing from the list
DeleteOne_KeepsSetup(tree, k) ==
    IF tree[files_to_delete[k]].exists /\ files_to_delete[k] # "setup.py"
    THEN Unlink(tree, files_to_delete[k]) ELSE tree

\* one iteration of the loop of delete_files, for f = files_to_delete[k]
DeleteOne(tree, k) ==
    IF tree[files_to_delete[k]].exists THEN Unlink(tree, files_to_delete[k]) ELSE tree

----------------------------------------------------------------------------
(* main(), step by step *)

Prog == "post_copy.py"

\* Main_CheckArgs with len(sys.argv) < 2 for len(sys.argv) != 2
Main_CheckArgs_TooFew ==
    /\ pc = "main"
    /\ IF Len(argv) < 2
       THEN /\ out' = Append(out, "Usage: " \o argv[1] \o " <python_name>")
            /\ exit_status' = <<1>>
            /\ pc' = "exited"
       ELSE /\ out' = Append(out, "KBase JupyterLab overlay post-copy for: " \o argv[2])
            /\ pc' = "pyproject"
            /\ UNCHANGED exit_status
    /\ UNCHANGED <<argv, fs, idx, written, runs, tree0, atDelete>>

\* if len(sys.argv) != 2: print usage, sys.exit(1); else print the banner
Main_CheckArgs ==
    /\ pc = "main"
    /\ IF Len(argv) # 2
       THEN /\ out' = Append(out, "Usage: " \o argv[1] \o " <python_name>")
            /\ exit_status' = <<1>>
            /\ pc' = "exited"
       ELSE /\ out' = Append(out, "KBase JupyterLab overlay post-copy for: " \o argv[2])
            /\ pc' = "pyproject"
            /\ UNCHANGED exit_status
    /\ UNCHANGED <<argv, fs, idx, written, runs, tree0, atDelete>>

\* Main_Pyproject without the pyproject.exists() test: path.read_text()
\* raises FileNotFoundError when the file is missing, which nothing catches
Main_Pyproject_Unguarded ==
    /\ pc = "pyproject"
    /\ out' = Append(out, "  Modifying pyproject.toml...")
    /\ IF fs[PyprojectPath].exists
       THEN /\ fs' = PyprojectRewritten(fs, argv[2])
            /\ written' = written \cup {PyprojectPath}
            /\ pc' = "init"
            /\ UNCHANGED exit_status
       ELSE /\ exit_status' = <<1>>
            /\ pc' = "exited"
            /\ UNCHANGED <<fs, written>>
    /\ UNCHANGED <<argv, idx, runs, tree0, atDelete>>

\* if pyproject.exists(): modify_pyproject(pyproject, python_name) else warn
Main_Pyproject ==
    /\ pc = "pyproject"
    /\ IF fs[PyprojectPath].exists
       THEN /\ out' = Append(out, "  Modifying pyproject.toml...")
            /\ fs' = PyprojectRewritten(fs, argv[2])
            /\ written' = written \cup {PyprojectPath}
       ELSE /\ out' = Append(out, "  WARNING: pyproject.toml not found!")
            /\ UNCHANGED <<fs, written>>
    /\ pc' = "init"
    /\ UNCHANGED <<argv, exit_status, idx, runs, tree0, atDelete>>

\* print("  Updating __init__.py..."); modify_init(python_name)
Main_Init ==
    /\ pc = "init"
    /\ out' = Append(out, "  Updating __init__.py...")
    /\ fs' = modify_init(fs, argv[2])
    /\ written' = IF InitIsRewritten(fs, argv[2])
                  THEN written \cup {init_path(argv[2])} ELSE written
    /\ pc' = "cleanup"
    /\ UNCHANGED <<argv, exit_status, idx, runs, tree0, atDelete>>

\* print("  Cleaning up incompatible files..."); delete_files() is entered
Main_Cleanup ==
    /\ pc = "cleanup"
    /\ out' = Append(out, "  Cleaning up incompatible files...")
    /\ idx' = 1
    /\ atDelete' = fs
    /\ pc' = "delete"
    /\ UNCHANGED <<argv, fs, exit_status, written, runs, tree0>>

\* one iteration of: for f in files_to_delete: if exists: unlink, print
Delete_Iteration ==
    /\ pc = "delete"
    /\ idx <= Len(files_to_delete)
    /\ fs' = DeleteOne(fs, idx)
    /\ out' = IF fs[files_to_delete[idx]].exists
              THEN Append(out, "  Deleted " \o files_to_delete[idx]) ELSE out
    /\ idx' = idx + 1
    /\ UNCHANGED <<argv, pc, exit_status, written, runs, tree0, atDelete>>

\* delete_files returns; the next-steps hint; the script ends with status 0
Main_Done ==
    /\ pc = "delete"
    /\ idx > Len(files_to_delete)
    /\ out' = out \o <<"  Done! Next steps:", "    uv sync",
                       "    uv run jupyter labextension develop . --overwrite">>
    /\ exit_status' = <<0>>
    /\ pc' = "done"
    /\ UNCHANGED <<argv, fs, idx, written, runs, tree0, atDelete>>

\* number of runs of the script the model follows
MaxRuns == 2

\* The script is started again with the same arguments on the tree the last
\* run left, whether that run ended or was interrupted after some of its steps.
Rerun ==
    /\ pc # "main"
    /\ runs < MaxRuns
    /\ runs' = runs + 1
    /\ pc' = "main"
    /\ out' = <<>>
    /\ exit_status' = <<>>
    /\ written' = {}
    /\ idx' = 1
    /\ UNCHANGED <<argv, fs, tree0, atDelete>>

Next ==
    \/ Main_CheckArgs
    \/ Main_Pyproject
    \/ Main_Init
    \/ Main_Cleanup
    \/ Delete_Iteration
    \/ Main_Done
    \/ Rerun

\* pyproject.toml texts of the initial working trees of Spec
MainPyprojectTexts == {
    <<DEPNODE1, NL, HV, NL, SRCNODE, NL, JB, NL, REQ38, NL>>,
    <<RELO, NL, LSCHEME, NL, HV, NL, SRCVCS, NL>> }

\* __init__.py texts of the initial working trees of Spec
MainInitTexts == {
    <<Q3, DOC, Q3, NL, CODE, NL>>,
    <<CODE, NL>> }

FilesOf(texts) == {NoFile} \cup {FileOf(t) : t \in texts}

\* the initial working trees of Spec: any of the six deletable files may exist
MainTrees ==
    {tree \in [Paths -> {NoFile, FileOf(<<TXT, NL>>)}] :
        /\ tree[OtherPath].exists
        /\ tree[PyprojectPath].exists
        /\ \A n \in Names : tree[init_path(n)].exists}

WithFiles(tree, py, ini, python_name) ==
    [tree EXCEPT ![PyprojectPath] = py, ![init_path(python_name)] = ini]

MainArgvs ==
    {<<Prog>>, <<Prog, "pkg", "extra">>} \cup {<<Prog, n>> : n \in Names}

Init ==
    /\ argv \in MainArgvs
    /\ \E tree \in MainTrees, py \in FilesOf(MainPyprojectTexts), ini \in FilesOf(MainInitTexts) :
           fs = WithFiles(tree, py, ini, IF Len(argv) >= 2 THEN argv[2] ELSE "pkg")
    /\ tree0 = fs
    /\ atDelete = fs
    /\ pc = "main"
    /\ out = <<>>
    /\ exit_status = <<>>
    /\ idx = 1
    /\ written = {}
    /\ runs = 1

Spec == Init /\ [][Next]_vars

----------------------------------------------------------------------------
(* modify_pyproject and modify_init called on their own, over all texts of  *)
(* a bounded size                                                           *)

\* number of successive calls of the function the model follows
MaxCalls == 2

\* modify_pyproject(Path("pyproject.toml"), python_name): read, transform, write
Call_modify_pyproject ==
    /\ pc = "modify_pyproject"
    /\ runs < MaxCalls
    /\ fs' = PyprojectRewritten(fs, argv[2])
    /\ written' = {PyprojectPath}
    /\ runs' = runs + 1
    /\ UNCHANGED <<argv, pc, out, exit_status, idx, tree0, atDelete>>

\* modify_init(python_name)
Call_modify_init ==
    /\ pc = "modify_init"
    /\ runs < MaxCalls
    /\ fs' = modify_init(fs, argv[2])
    /\ written' = IF InitIsRewritten(fs, argv[2]) THEN {init_path(argv[2])} ELSE {}
    /\ runs' = runs + 1
    /\ UNCHANGED <<argv, pc, out, exit_status, idx, tree0, atDelete>>

\* a working tree in which every path exists
BaseTree == [p \in Paths |-> FileOf(<<TXT, NL>>)]

\* the state before the first call of a function, on working tree `tree`
BeforeCalls(tree, function) ==
    /\ fs = tree
    /\ tree0 = tree
    /\ atDelete = tree
    /\ pc = function
    /\ out = <<>>
    /\ exit_status = <<>>
    /\ idx = 1
    /\ written = {}
    /\ runs = 0

\* all concatenations of at most n of the given pieces
RECURSIVE Concatenations(_, _)
Concatenations(pieces, n) ==
    IF n = 0 THEN {<<>>}
    ELSE LET shorter == Concatenations(pieces, n - 1) IN
         shorter \cup {d \o p : d \in shorter, p \in pieces}

\* lines and groups of lines a pyproject.toml is put together from
PyFragments == {
    <<NL>>,
    <<TXT, NL>>,
    <<SECT, NL>>,
    <<DEPNODE1, COMMA, DEPNODE2, NL>>,
    <<HV, NL, SRCNODE, NL>>,
    <<HV, NL, SRCVCS, NL>>,
    <<LSCHEME, NL>>,
    <<HOOKREF, NL>>,
    <<JB, NL>>,
    <<RELO, NL>>,
    <<RELH, NL>>,
    <<KEYEQ, ARR, NL>>,
    <<REQ38, NL>>,
    <<SP, CLS8, COMMA, NL, SP, CLS9, NL>>,
    <<RAWOPT, NL>> }

\* number of fragments of the pyproject.toml texts
MaxFragments == 3

InitPyproject ==
    \E n \in Names, text \in Concatenations(PyFragments, MaxFragments) :
        /\ argv = <<Prog, n>>
        /\ BeforeCalls(WithFiles(BaseTree, FileOf(text), FileOf(<<CODE, NL>>), n),
                       "modify_pyproject")

SpecPyproject == InitPyproject /\ [][Call_modify_pyproject]_vars

\* length of the texts made of text lines and newlines only
MaxBlankLen == 6

InitBlank ==
    \E n \in Names, text \in Concatenations({<<TXT>>, <<NL>>}, MaxBlankLen) :
        /\ argv = <<Prog, n>>
        /\ BeforeCalls(WithFiles(BaseTree, FileOf(text), FileOf(<<CODE, NL>>), n),
                       "modify_pyproject")

SpecBlank == InitBlank /\ [][Call_modify_pyproject]_vars

\* tokens the __init__.py texts are made of
InitTokens == {<<Q3>>, <<DOC>>, <<CODE>>, <<NL>>, <<VER>>}
                  \cup {<<VersionBlockText(n)>> : n \in Names}

\* length of the __init__.py texts
MaxInitLen == 4

InitInit ==
    \E n \in Names, ini \in FilesOf(Concatenations(InitTokens, MaxInitLen)) :
        /\ argv = <<Prog, n>>
        /\ BeforeCalls(WithFiles(BaseTree, FileOf(<<TXT, NL>>), ini, n), "modify_init")

SpecInit == InitInit /\ [][Call_modify_init]_vars

----------------------------------------------------------------------------
(* Properties *)

PyIn == tree0[PyprojectPath].text
PyOut == fs[PyprojectPath].text
InitIn == tree0[init_path(argv[2])]
InitOut == fs[init_path(argv[2])]

\* C1: modify_pyproject is idempotent: once it has been applied to
\* pyproject.toml, applying it again with the same python name leaves the
\* text as it is.
C1_Idempotent == [][runs >= 1 => fs'[PyprojectPath] = fs[PyprojectPath]]_vars

\* the working tree after one run of main that is not interrupted
UninterruptedRun(tree, python_name) ==
    LET t1 == IF tree[PyprojectPath].exists
              THEN PyprojectRewritten(tree, python_name) ELSE tree
        t2 == modify_init(t1, python_name)
    IN  [p \in Paths |-> IF p \in DeletablePaths THEN NoFile ELSE t2[p]]

\* C2: whenever a run of main completes, also when earlier runs were
\* interrupted after some of their steps or had completed, the working tree
\* is the one that a single uninterrupted run leaves from the initial tree.
C2_Converges ==
    (Len(argv) = 2 /\ pc = "done") => fs = UninterruptedRun(tree0, argv[2])

\* C3: with an argument count other than one, main prints the usage line and
\* exits with status 1, and no file is rewritten, created or deleted.
C3_UsageError ==
    Len(argv) # 2 =>
        /\ fs = tree0
        /\ written = {}
        /\ \/ pc = "main" /\ exit_status = <<>> /\ out = <<>>
           \/ /\ pc = "exited"
              /\ exit_status = <<1>>
              /\ out = <<"Usage: post_copy.py <python_name>">>

C3_Witness == pc = "exited" /\ Len(argv) = 3 /\ fs[PyprojectPath].exists

RunSteps == Main_CheckArgs \/ Main_Pyproject \/ Main_Init \/ Main_Cleanup
                \/ Delete_Iteration \/ Main_Done

\* C4: when pyproject.toml does not exist, main warns, neither calls
\* modify_pyproject nor creates the file, goes on with modify_init and then
\* delete_files, and ends with exit status 0.
C4_MissingPyproject ==
    (Len(argv) = 2 /\ ~tree0[PyprojectPath].exists) =>
        /\ ~fs[PyprojectPath].exists
        /\ PyprojectPath \notin written
        /\ ~Contains(out, {"  Modifying pyproject.toml..."})
        /\ pc \in {"init", "cleanup", "delete", "done"} =>
               out[2] = "  WARNING: pyproject.toml not found!"
        /\ pc \in {"cleanup", "delete", "done"} =>
               /\ out[3] = "  Updating __init__.py..."
               /\ ~InitIsRewritten(fs, argv[2])
        /\ pc \in {"delete", "done"} =>
               out[4] = "  Cleaning up incompatible files..."
        /\ pc = "done" =>
               /\ exit_status = <<0>>
               /\ \A p \in DeletablePaths : ~fs[p].exists
        /\ pc # "done" => exit_status = <<>> /\ ENABLED RunSteps

C4_Witness ==
    /\ pc = "done"
    /\ ~tree0[PyprojectPath].exists
    /\ init_path(argv[2]) \in written
    /\ \E p \in DeletablePaths : atDelete[p].exists

\* C5: delete_files removes the files of the fixed list that exist and
\* nothing else: when it has returned none of the six exists, every other
\* path is as it was, one Deleted line was printed per file that existed, and
\* it returns also when none of them existed.
C5_DeleteFiles ==
    /\ pc = "delete" =>
           \A k \in 1..Len(files_to_delete) :
               IF k < idx THEN ~fs[files_to_delete[k]].exists
               ELSE fs[files_to_delete[k]] = atDelete[files_to_delete[k]]
    /\ pc \in {"delete", "done"} =>
           \A p \in Paths \ DeletablePaths : fs[p] = atDelete[p]
    /\ pc = "delete" /\ idx > Len(files_to_delete) => ENABLED Main_Done
    /\ pc = "done" =>
           /\ \A p \in DeletablePaths : ~fs[p].exists
           /\ \A p \in DeletablePaths :
                  Count(out, <<"  Deleted " \o p>>) = IF atDelete[p].exists THEN 1 ELSE 0
           /\ exit_status = <<0>>

C5_Witness ==
    /\ pc = "done"
    /\ atDelete[".nvmrc"].exists
    /\ ~atDelete["setup.py"].exists
    /\ Count(out, <<"  Deleted .nvmrc">>) = 1

\* C6: modify_init leaves the tree as it is and writes nothing when
\* __init__.py is absent or contains _version; otherwise it rewrites the file,
\* and the version block then occurs in it exactly once.
C6_InitNoOp ==
    [][ IF ~fs[init_path(argv[2])].exists
           \/ Contains(fs[init_path(argv[2])].text, VersionMarkerTokens)
        THEN fs' = fs /\ written' = {}
        ELSE /\ written' = {init_path(argv[2])}
             /\ fs'[init_path(argv[2])].exists
             /\ Count(fs'[init_path(argv[2])].text, version_block(argv[2])) = 1
             /\ \A p \in Paths \ {init_path(argv[2])} : fs'[p] = fs[p] ]_vars

C6_Witness ==
    /\ runs >= 1
    /\ InitIn.exists
    /\ Contains(InitIn.text, {VER})
    /\ fs = tree0
    /\ written = {}

\* whether the text begins (after blank lines) with a closed """ block
BeginsWithDocBlock(text) ==
    LET j == SkipNewlines(text, 1) IN
    /\ j <= Len(text)
    /\ text[j] = Q3
    /\ FindFrom(text, j + 1, Q3) # 0

\* index of the closing delimiter of the leading documentation block
DocBlockEnd(text) == FindFrom(text, SkipNewlines(text, 1) + 1, Q3)

Separators == {<<>>, <<NL>>, <<NL, NL>>}

\* C7: when modify_init rewrites a text that begins with a documentation
\* block, the version block follows the closing delimiter of that block, and
\* the block and the text after it are kept; for every other text the version
\* block is put at the very top and the text follows unchanged.
C7_Placement ==
    (runs = 1 /\ written # {}) =>
        IF BeginsWithDocBlock(InitIn.text)
        THEN \E sep \in Separators :
                 InitOut.text = SubSeq(InitIn.text, 1, DocBlockEnd(InitIn.text))
                                    \o sep \o version_block(argv[2])
                                    \o SubSeq(InitIn.text, DocBlockEnd(InitIn.text) + 1,
                                              Len(InitIn.text))
        ELSE \E sep \in Separators :
                 InitOut.text = version_block(argv[2]) \o sep \o InitIn.text

\* tokens that are section headers: '[' ... ']' on a line of its own
SectionHeaderTokens == BracketTokens \ {ARR}

\* the index of the next section header from index i on, or Len(s) + 1
RECURSIVE UntilSectionHeader(_, _)
UntilSectionHeader(s, i) ==
    IF i > Len(s) \/ s[i] \in SectionHeaderTokens THEN i
    ELSE UntilSectionHeader(s, i + 1)

\* s without the sections of the given header, each taken up to the next
\* section header or the end of the text
RECURSIVE WithoutSectionFrom(_, _, _)
WithoutSectionFrom(s, i, header) ==
    IF i > Len(s) THEN <<>>
    ELSE IF s[i] = header
         THEN WithoutSectionFrom(s, UntilSectionHeader(s, i + 1), header)
         ELSE <<s[i]>> \o WithoutSectionFrom(s, i + 1, header)

\* C8: modify_pyproject removes the sections [tool.jupyter-releaser.options]
\* and [tool.jupyter-releaser.hooks] whole, header and body up to the next
\* section header or the end of the text, also when a body line holds a '[',
\* and removes nothing of any other section.
C8_WholeSectionsRemoved ==
    runs = 1 =>
        PyOut = AfterRemoval(
                    WithoutSectionFrom(
                        WithoutSectionFrom(BeforeRemoval(PyIn, argv[2]), 1, RELO),
                        1, RELH))

\* the maximal runs of equal tokens of a text, as <<token, length>> records
RECURSIVE RunLengths(_)
RunLengths(s) ==
    IF s = <<>> THEN <<>>
    ELSE LET rest == RunLengths(Tail(s)) IN
         IF rest # <<>> /\ rest[1].tok = Head(s)
         THEN <<[tok |-> Head(s), n |-> rest[1].n + 1]>> \o Tail(rest)
         ELSE <<[tok |-> Head(s), n |-> 1]>> \o rest

\* the number of blank lines that run k of a text stands for: a run of
\* newlines at the very start is that many blank lines, a later one ends a
\* text line first
BlankLines(rl, k) ==
    IF rl[k].tok # NL THEN 0
    ELSE IF k = 1 THEN rl[k].n
    ELSE rl[k].n - 1

\* C9 as stated: every run of three or more blank lines of the input has
\* become exactly one blank line, and runs of one or two are untouched.
C9_BlankLineRuns ==
    runs = 1 =>
        /\ Len(RunLengths(PyOut)) = Len(RunLengths(PyIn))
        /\ \A k \in 1..Len(RunLengths(PyIn)) :
               /\ BlankLines(RunLengths(PyIn), k) >= 3 =>
                      BlankLines(RunLengths(PyOut), k) = 1
               /\ BlankLines(RunLengths(PyIn), k) \in {1, 2} =>
                      BlankLines(RunLengths(PyOut), k) = BlankLines(RunLengths(PyIn), k)

\* C9 amended: every run of three or more newline characters of the input
\* has become exactly two newline characters, and everything else, runs of
\* one or two newline characters included, is untouched.
C9_NewlineRuns ==
    runs >= 1 =>
        RunLengths(PyOut) =
            [k \in 1..Len(RunLengths(PyIn)) |->
                IF RunLengths(PyIn)[k].tok = NL /\ RunLengths(PyIn)[k].n >= 3
                THEN [tok |-> NL, n |-> 2]
                ELSE RunLengths(PyIn)[k]]

C9_Witness ==
    /\ runs = 1
    /\ PyIn = <<TXT, NL, NL, NL, TXT>>
    /\ PyOut = <<TXT, NL, NL, TXT>>

\* number of version-source sections of a text
VersionSections(text) ==
    Count(text, <<HV, NL, SRCVCS>>) + Count(text, <<HV, NL, SRCNODE>>)

\* C10 as stated: the raw-options subsection is inserted if and only if
\* local_scheme is absent from the input.
C10_InsertedIffAbsent ==
    runs = 1 =>
        (Count(PyOut, <<RAWOPT, NL, LSCHEME>>) > Count(PyIn, <<RAWOPT, NL, LSCHEME>>)
            <=> ~Contains(PyIn, LocalSchemeTokens))

\* C10 amended: the raw-options subsection is inserted, right after each
\* version-source section, if and only if local_scheme is absent from the
\* input and the input has a version-source section; otherwise the first run
\* inserts nothing; and a re-run adds no further copy to the ones inserted.
C10_InsertedIffAbsentAndSection ==
    runs >= 1 =>
        IF ~Contains(PyIn, LocalSchemeTokens) /\ VersionSections(PyIn) > 0
        THEN /\ Count(PyOut, RawOptionsInserted) = VersionSections(PyIn)
             /\ Count(PyOut, <<RAWOPT>>) = Count(PyIn, <<RAWOPT>>) + VersionSections(PyIn)
             /\ Count(PyOut, <<LSCHEME>>) = VersionSections(PyIn)
        ELSE runs = 1 =>
                 /\ Count(PyOut, <<RAWOPT>>) = Count(PyIn, <<RAWOPT>>)
                 /\ Count(PyOut, <<LSCHEME>>) <= Count(PyIn, <<LSCHEME>>)

C10_Witness ==
    /\ runs = 2
    /\ ~Contains(PyIn, LocalSchemeTokens)
    /\ Count(PyIn, <<HV, NL, SRCNODE>>) = 1
    /\ Count(PyOut, RawOptionsInserted) = 1
    /\ Count(PyOut, <<LSCHEME>>) = 1

====
